---- MODULE Spec2Model ----
(***************************************************************************)
(* Metrics acquisition pipeline of thufir: the server explorer            *)
(* (ServerExplorerProvider), the metrics store (ServerMetricsProvider),    *)
(* its poll cycles over an ssh2 session, and the text parsers of the five  *)
(* shell probes.                                                           *)
(*                                                                         *)
(* Conventions.  A JavaScript Map is a function whose DOMAIN is the set of *)
(* keys present.  A string is a tuple of one-character strings.  A number  *)
(* is a record [nan, v]: parseInt results carry the integer in v,          *)
(* parseFloat results carry the value in hundredths (two fraction digits   *)
(* are kept).  An optional value is a tuple of length 0 or 1.              *)
(***************************************************************************)
EXTENDS Integers, Sequences, FiniteSets, TLC

\* ------------------------------------------------------------------------
\* Bounds of the model
\* ------------------------------------------------------------------------
MaxNodes == 1
MaxConns == 2
MaxCycles == 2

\* ------------------------------------------------------------------------
\* JavaScript values and text primitives
\* ------------------------------------------------------------------------
Undefined == <<"undefined">>

NaN == [nan |-> TRUE, v |-> 0]

Num(x) == [nan |-> FALSE, v |-> x]

WhiteSpace == {" ", "\n", "\t"}

Digits == {"0", "1", "2", "3", "4", "5", "6", "7", "8", "9"}

DigitVal(c) ==
    CASE c = "0" -> 0 [] c = "1" -> 1 [] c = "2" -> 2 [] c = "3" -> 3
      [] c = "4" -> 4 [] c = "5" -> 5 [] c = "6" -> 6 [] c = "7" -> 7
      [] c = "8" -> 8 [] c = "9" -> 9

RECURSIVE SkipWS(_)
SkipWS(s) ==
    IF s # <<>> /\ Head(s) \in WhiteSpace THEN SkipWS(Tail(s)) ELSE s

RECURSIVE DropTrailingWS(_)
DropTrailingWS(s) ==
    IF s # <<>> /\ s[Len(s)] \in WhiteSpace
    THEN DropTrailingWS(SubSeq(s, 1, Len(s) - 1))
    ELSE s

\* String.prototype.trim
Trim(s) == DropTrailingWS(SkipWS(s))

\* String.prototype.split with a one-character separator
RECURSIVE Split(_, _)
Split(s, sep) ==
    IF \E i \in 1..Len(s) : s[i] = sep
    THEN LET i == CHOOSE j \in 1..Len(s) :
                      s[j] = sep /\ \A m \in 1..(j - 1) : s[m] # sep
         IN  <<SubSeq(s, 1, i - 1)>> \o Split(SubSeq(s, i + 1, Len(s)), sep)
    ELSE <<s>>

\* array destructuring: a missing element is undefined
At(arr, i) == IF i <= Len(arr) THEN arr[i] ELSE Undefined

RECURSIVE TakeDigits(_)
TakeDigits(s) ==
    IF s # <<>> /\ Head(s) \in Digits
    THEN <<Head(s)>> \o TakeDigits(Tail(s))
    ELSE <<>>

RECURSIVE DigitsToInt(_)
DigitsToInt(d) ==
    IF d = <<>> THEN 0
    ELSE DigitsToInt(SubSeq(d, 1, Len(d) - 1)) * 10 + DigitVal(d[Len(d)])

Drop(s, n) == SubSeq(s, n + 1, Len(s))

SignOf(s) == IF s # <<>> /\ Head(s) = "-" THEN -1 ELSE 1

Unsigned(s) == IF s # <<>> /\ Head(s) \in {"-", "+"} THEN Tail(s) ELSE s

\* first two fraction digits, in hundredths
Frac2(fp) ==
    (IF Len(fp) >= 1 THEN DigitVal(fp[1]) * 10 ELSE 0)
  + (IF Len(fp) >= 2 THEN DigitVal(fp[2]) ELSE 0)

\* global parseInt (radix 10): leading white space, sign, digits;
\* anything else, undefined included, is NaN
ParseInt(s) ==
    IF s = Undefined THEN NaN
    ELSE LET t == SkipWS(s)
             d == TakeDigits(Unsigned(t))
         IN  IF d = <<>> THEN NaN ELSE Num(SignOf(t) * DigitsToInt(d))

\* global parseFloat: longest decimal prefix after leading white space
ParseFloat(s) ==
    IF s = Undefined THEN NaN
    ELSE LET t    == SkipWS(s)
             body == Unsigned(t)
             ip   == TakeDigits(body)
             rest == Drop(body, Len(ip))
             fp   == IF rest # <<>> /\ Head(rest) = "."
                     THEN TakeDigits(Tail(rest)) ELSE <<>>
         IN  IF ip = <<>> /\ fp = <<>> THEN NaN
             ELSE Num(SignOf(t) * (DigitsToInt(ip) * 100 + Frac2(fp)))

\* ------------------------------------------------------------------------
\* collectMetrics: the record built once the five outputs are in
\* ------------------------------------------------------------------------
MapParseFloatTrim(parts) == [i \in 1..Len(parts) |-> ParseFloat(Trim(parts[i]))]

\* results = [cpu, memory, disk, uptime, loadAvg], each already trimmed
BuildRecord(results) ==
    LET cpu    == results[1]
        memory == Split(results[2], " ")
        disk   == Split(results[3], " ")
        uptime == results[4]
        loadAvgValues == MapParseFloatTrim(Split(results[5], ","))
    IN  [cpu |-> ParseFloat(cpu),
         memory |-> [used |-> ParseInt(At(memory, 1)),
                     total |-> ParseInt(At(memory, 2))],
         disk |-> [used |-> ParseFloat(At(disk, 1)),
                   total |-> ParseFloat(At(disk, 2))],
         uptime |-> ParseFloat(uptime),
         loadAverage |-> loadAvgValues,
         prometheusMetrics |-> <<>>]

\* a record with no unparsed field
NoNaN(rec) ==
    /\ ~rec.cpu.nan
    /\ ~rec.memory.used.nan /\ ~rec.memory.total.nan
    /\ ~rec.disk.used.nan /\ ~rec.disk.total.nan
    /\ ~rec.uptime.nan
    /\ \A i \in 1..Len(rec.loadAverage) : ~rec.loadAverage[i].nan

\* ------------------------------------------------------------------------
\* State
\* ------------------------------------------------------------------------
VARIABLES
    \* ServerExplorerProvider
    nodes,              \* every ServerNode object created: id -> fields
    servers,            \* this.servers: list of node ids
    connections,        \* this.connections: explorer key -> ssh2 client
    saved,              \* globalState 'servers'
    pending,            \* connect attempts awaiting ready / error / timeout
    nextNode,
    nextConn,
    \* ServerMetricsProvider
    serverConnections,  \* metrics key -> ssh2 client
    serverMetrics,      \* metrics key -> record object
    updateIntervals,    \* metrics key -> timer handle
    prometheusClients,  \* metrics key -> PrometheusClient
    fired,              \* number of _onDidChangeTreeData.fire() calls
    \* runtime
    sessions,           \* ssh2 client -> "connecting" | "ready" | "closed" | "failed"
    timers,             \* active setInterval handles -> [node, kind]
    cycles,             \* poll cycles in flight
    heap,               \* record objects: object id -> ServerMetrics
    nextTimer,
    nextCycle,
    nextObj,
    \* history: how each finished cycle ended, and the cycle whose record is stored
    cycleOutcome,
    publishedBy,
    \* history: the outcomes each connect attempt's promise has delivered
    attemptOutcomes,
    \* callers of the provider: what the last getMetrics call returned
    returned,
    \* callers of PrometheusClient: the last call, its response and outcome
    promCall,
    \* webview panels (ServerMetricsPanel, LogViewPanel, PrometheusDashboard)
    panels,             \* every panel object created: id -> [kind, disposed]
    currentPanel,       \* the static currentPanel of each class
    panelTimers,        \* active setInterval handles of panels: handle -> panel
    lastUpdate,         \* history: the panel whose _update a timer ran last
    nextPanel,
    \* LogManager
    logStreams,         \* this.logStreams: stream key -> channel
    logBuffer,          \* this.logBuffer: server key -> entries
    channels,           \* exec channels opened for tail -f: id -> fields
    tailing,            \* startLogCollection calls awaiting tailLogFile
    logStopped,         \* history: keys stopped and not started again
    nextChannel

explorerVars == <<nodes, servers, connections, saved, pending, nextNode, nextConn>>

providerVars == <<serverConnections, serverMetrics, updateIntervals,
                  prometheusClients, fired>>

runtimeVars == <<sessions, timers, cycles, heap, nextTimer, nextCycle, nextObj>>

historyVars == <<cycleOutcome, publishedBy, attemptOutcomes>>

panelVars == <<panels, currentPanel, panelTimers, lastUpdate, nextPanel>>

logVars == <<logStreams, logBuffer, channels, tailing, logStopped, nextChannel>>

callerVars == <<returned, promCall, panelVars, logVars>>

vars == <<explorerVars, providerVars, runtimeVars, historyVars, callerVars>>

\* ------------------------------------------------------------------------
\* Maps
\* ------------------------------------------------------------------------
EmptyMap == [x \in {} |-> 0]

Has(m, k) == k \in DOMAIN m

Put(m, k, val) == [x \in (DOMAIN m) \cup {k} |-> IF x = k THEN val ELSE m[x]]

Del(m, k) == [x \in (DOMAIN m) \ {k} |-> m[x]]

PanelKinds == {"ServerMetricsPanel", "LogViewPanel", "PrometheusDashboard"}

\* no panel has been opened
NoPanels ==
    /\ panels = EmptyMap
    /\ currentPanel = [k \in PanelKinds |-> <<>>]
    /\ panelTimers = EmptyMap
    /\ lastUpdate = <<>>
    /\ nextPanel = 1

\* LogManager.getInstance(): both maps are empty
NoLogs ==
    /\ logStreams = EmptyMap
    /\ logBuffer = EmptyMap
    /\ channels = EmptyMap
    /\ tailing = {}
    /\ logStopped = {}
    /\ nextChannel = 1

\* ------------------------------------------------------------------------
\* Input domains
\* ------------------------------------------------------------------------
Labels == {"a"}

Hosts == {"h"}

Users == {"u"}

Ports == {22}

PromConfigs == {"p1"}

\* outputs a probe may deliver, per command index (1 = CPU ... 5 = load)
ProbeOutputs ==
    << { <<"7", ".", "5", "\n">>, <<>> },
       { <<"2", "0", " ", "8", "0">> },
       { <<"1", "2", "G", " ", "5", "0", "G">> },
       { <<"3", "\n">> },
       { <<"0", ".", "1", ",", " ", "0", ".", "2", ",", " ", "0", ".", "3">> } >>

NumCommands == 5

AllProbeOutputs == UNION {ProbeOutputs[i] : i \in 1..NumCommands}

PromQueryNames == << "node_cpu_seconds_total",
                     "node_memory_MemAvailable_bytes",
                     "node_filesystem_avail_bytes" >>

NumQueries == 3

\* an instant query either throws or returns a list of series, of which
\* only result[0].value[1] is read
QueryOutcomes ==
    { [throws |-> TRUE, result |-> <<>>],
      [throws |-> FALSE, result |-> <<>>],
      [throws |-> FALSE, result |-> << <<"0", ".", "2", "5">> >>] }

\* ------------------------------------------------------------------------
\* Keys
\* ------------------------------------------------------------------------
\* ServerMetricsProvider.getServerKey: `${label} (${username}@${host})`
getServerKey(nd) == <<nd.label, nd.username, nd.host>>

\* ServerExplorerProvider.getServerKey: `${username}@${host}:${port}`
ExplorerGetServerKey(nd) == <<nd.username, nd.host, nd.port>>

\* ------------------------------------------------------------------------
\* The provider and the runtime as one value, so that handlers compose
\* ------------------------------------------------------------------------
World ==
    [serverConnections |-> serverConnections, serverMetrics |-> serverMetrics,
     updateIntervals |-> updateIntervals, prometheusClients |-> prometheusClients,
     fired |-> fired, sessions |-> sessions, timers |-> timers,
     cycles |-> cycles, heap |-> heap, nextTimer |-> nextTimer,
     nextCycle |-> nextCycle, nextObj |-> nextObj,
     cycleOutcome |-> cycleOutcome, publishedBy |-> publishedBy,
     attemptOutcomes |-> attemptOutcomes]

SetWorld(w) ==
    /\ serverConnections' = w.serverConnections
    /\ serverMetrics' = w.serverMetrics
    /\ updateIntervals' = w.updateIntervals
    /\ prometheusClients' = w.prometheusClients
    /\ fired' = w.fired
    /\ sessions' = w.sessions
    /\ timers' = w.timers
    /\ cycles' = w.cycles
    /\ heap' = w.heap
    /\ nextTimer' = w.nextTimer
    /\ nextCycle' = w.nextCycle
    /\ nextObj' = w.nextObj
    /\ cycleOutcome' = w.cycleOutcome
    /\ publishedBy' = w.publishedBy
    /\ attemptOutcomes' = w.attemptOutcomes

\* ssh2 Client.end(): a connecting or ready client is closed
End(ss, c) ==
    IF ss[c] \in {"connecting", "ready"} THEN [ss EXCEPT ![c] = "closed"] ELSE ss

\* new PrometheusClient(config)
NewPrometheusClient(cfg) == [config |-> cfg]

emptyMetrics ==
    [cpu |-> Num(0),
     memory |-> [used |-> Num(0), total |-> Num(0)],
     disk |-> [used |-> Num(0), total |-> Num(0)],
     uptime |-> Num(0),
     loadAverage |-> <<Num(0), Num(0), Num(0)>>,
     prometheusMetrics |-> <<EmptyMap>>]

\* this.serverMetrics.set(serverKey, metrics); this._onDidChangeTreeData.fire()
Publish(w, k, oid, c) ==
    [w EXCEPT !.serverMetrics = Put(@, k, oid), !.fired = @ + 1,
              !.publishedBy = Put(@, k, c)]

\* history: cycle c of key k has ended
Ended(w, c, k, how) ==
    [w EXCEPT !.cycleOutcome = Put(@, c, [how |-> how, key |-> k])]

\* a catch block that also drops the stored record
CatchClearsRecord(w, c, k) ==
    [Ended(w, c, k, "failed") EXCEPT !.serverMetrics = Del(@, k)]

\* the catch block of updateMetrics / updateLocalPrometheusMetrics: the error
\* is logged
Catch(w, c, k) == Ended(w, c, k, "failed")

\* the cycle's chain of callbacks has ended
Finish(w, c) == [w EXCEPT !.cycles = Del(@, c)]

\* ------------------------------------------------------------------------
\* ServerMetricsProvider
\* ------------------------------------------------------------------------
\* updateMetrics up to its first await: the cycle is created and the first
\* command is issued; exec on a client that is not connected throws inside
\* the promise executor, which rejects the cycle at once
updateMetrics(w, nd) ==
    LET k == getServerKey(nd) IN
    IF ~Has(w.serverConnections, k) THEN w
    ELSE LET conn == w.serverConnections[k]
             cy == [id |-> w.nextCycle, node |-> nd.id, kind |-> "shell",
                    key |-> k, conn |-> conn,
                    prom |-> IF Has(w.prometheusClients, k)
                             THEN <<w.prometheusClients[k]>> ELSE <<>>,
                    phase |-> "probe", idx |-> 1, results |-> <<>>,
                    settled |-> "pending", errored |-> FALSE,
                    obj |-> 0, pm |-> EmptyMap]
         IN  IF w.sessions[conn] = "ready"
             THEN [w EXCEPT !.cycles = Put(@, cy.id, cy), !.nextCycle = @ + 1]
             ELSE Catch([w EXCEPT !.nextCycle = @ + 1], cy.id, k)

startMonitoring(w, conn, nd) ==
    LET k  == getServerKey(nd)
        w1 == [w EXCEPT !.serverConnections = Put(@, k, conn)]
        w2 == IF nd.prometheusConfig # <<>>
              THEN [w1 EXCEPT !.prometheusClients =
                        Put(@, k, NewPrometheusClient(nd.prometheusConfig[1]))]
              ELSE w1
        w3 == updateMetrics(w2, nd)
        t  == w3.nextTimer
    IN  [w3 EXCEPT !.timers = Put(@, t, [node |-> nd.id, kind |-> "shell"]),
                   !.updateIntervals = Put(@, k, t),
                   !.nextTimer = t + 1]

stopMonitoring(w, nd) ==
    LET k  == getServerKey(nd)
        w1 == IF Has(w.updateIntervals, k)
              THEN [w EXCEPT !.timers = Del(@, w.updateIntervals[k]),
                             !.updateIntervals = Del(@, k)]
              ELSE w
        w2 == IF Has(w1.serverConnections, k)
              THEN [w1 EXCEPT !.sessions = End(@, w1.serverConnections[k]),
                              !.serverConnections = Del(@, k)]
              ELSE w1
    IN  [w2 EXCEPT !.prometheusClients = Del(@, k),
                   !.serverMetrics = Del(@, k),
                   !.publishedBy = Del(@, k),
                   !.fired = @ + 1]

\* getMetrics(node)
getMetrics(nd) ==
    IF Has(serverMetrics, getServerKey(nd))
    THEN <<heap[serverMetrics[getServerKey(nd)]]>>
    ELSE <<>>

\* updateLocalPrometheusMetrics up to its first await
updateLocalPrometheusMetrics(w, nd) ==
    LET k == getServerKey(nd) IN
    IF ~Has(w.prometheusClients, k) THEN w
    ELSE LET stored == Has(w.serverMetrics, k)
             oid == IF stored THEN w.serverMetrics[k] ELSE w.nextObj
             cy == [id |-> w.nextCycle, node |-> nd.id, kind |-> "local",
                    key |-> k, conn |-> 0,
                    prom |-> <<w.prometheusClients[k]>>,
                    phase |-> "query", idx |-> 1, results |-> <<>>,
                    settled |-> "pending", errored |-> FALSE,
                    obj |-> oid, pm |-> EmptyMap]
         IN  [w EXCEPT !.cycles = Put(@, cy.id, cy),
                       !.nextCycle = @ + 1,
                       !.heap = IF stored THEN @ ELSE Put(@, oid, emptyMetrics),
                       !.nextObj = IF stored THEN @ ELSE @ + 1]

startMonitoringLocalPrometheus(w, nd) ==
    IF nd.prometheusConfig = <<>> THEN w
    ELSE LET k   == getServerKey(nd)
             oid == w.nextObj
             t   == w.nextTimer
             w1  == [w EXCEPT
                       !.prometheusClients =
                           Put(@, k, NewPrometheusClient(nd.prometheusConfig[1])),
                       !.heap = Put(@, oid, emptyMetrics),
                       !.nextObj = @ + 1,
                       !.serverMetrics = Put(@, k, oid),
                       !.publishedBy = Put(@, k, 0),
                       !.timers = Put(@, t, [node |-> nd.id, kind |-> "local"]),
                       !.updateIntervals = Put(@, k, t),
                       !.nextTimer = t + 1]
         IN  updateLocalPrometheusMetrics(w1, nd)

\* ------------------------------------------------------------------------
\* Poll cycle steps (the callbacks and continuations of one cycle)
\* ------------------------------------------------------------------------
\* connection.exec calls back with an error: reject(err); no further command
AfterExecError(w, c) ==
    Finish(IF w.cycles[c].settled = "pending"
           THEN Catch(w, c, w.cycles[c].key) ELSE w, c)

ExecError(c) ==
    /\ c \in DOMAIN cycles
    /\ cycles[c].phase = "probe"
    /\ ~cycles[c].errored
    /\ SetWorld(AfterExecError(World, c))
    /\ UNCHANGED <<explorerVars, callerVars>>

\* stream 'error': reject(error); the stream's 'end' handler stays registered
AfterStreamError(w, c) ==
    LET w1 == IF w.cycles[c].settled = "pending"
              THEN Catch(w, c, w.cycles[c].key) ELSE w
    IN  [w1 EXCEPT !.cycles[c].errored = TRUE, !.cycles[c].settled = "rejected"]

StreamError(c) ==
    /\ c \in DOMAIN cycles
    /\ cycles[c].phase = "probe"
    /\ ~cycles[c].errored
    /\ SetWorld(AfterStreamError(World, c))
    /\ UNCHANGED <<explorerVars, callerVars>>

\* a stream 'end' handler that issues the next two commands at once
AfterStreamEndSkips(w, c, data) ==
    LET cy == w.cycles[c] IN
    IF cy.idx < NumCommands
    THEN [w EXCEPT !.cycles[c].results = cy.results \o <<Trim(data)>>,
                   !.cycles[c].idx = IF cy.idx + 2 <= NumCommands
                                     THEN cy.idx + 2 ELSE NumCommands]
    ELSE Finish(Ended(w, c, cy.key, "failed"), c)

\* the world after stream 'end' of the current command with output `data`:
\* results[index] = data.trim(); executeCommand(index + 1)
AfterStreamEnd(w, c, data) ==
    LET cy == w.cycles[c]
        results == cy.results \o <<Trim(data)>>
    IN  IF cy.idx < NumCommands
        THEN IF w.sessions[cy.conn] = "ready"
             THEN [w EXCEPT !.cycles[c].results = results,
                            !.cycles[c].idx = cy.idx + 1,
                            !.cycles[c].errored = FALSE]
             ELSE \* exec throws in the event handler: the chain stops
                  Finish(IF cy.settled = "pending"
                         THEN Ended(w, c, cy.key, "dead")
                         ELSE w, c)
        ELSE IF cy.settled = "rejected"
             THEN Finish(w, c)
             ELSE LET oid == w.nextObj
                      w1 == [w EXCEPT !.heap = Put(@, oid, BuildRecord(results)),
                                      !.nextObj = @ + 1]
                  IN  IF cy.prom = <<>>
                      THEN Finish(Ended(Publish(w1, cy.key, oid, c), c, cy.key,
                                        "published"), c)
                      ELSE [w1 EXCEPT !.cycles[c].results = results,
                                      !.cycles[c].settled = "resolved",
                                      !.cycles[c].phase = "query",
                                      !.cycles[c].idx = 1,
                                      !.cycles[c].obj = oid]

StreamEnd(c, data) ==
    /\ c \in DOMAIN cycles
    /\ cycles[c].phase = "probe"
    /\ data \in ProbeOutputs[cycles[c].idx]
    /\ SetWorld(AfterStreamEnd(World, c, data))
    /\ UNCHANGED <<explorerVars, callerVars>>

\* a truthy number: neither NaN nor 0
Truthy(m, name) == Has(m, name) /\ ~m[name].nan /\ m[name].v # 0

\* (1 - idle) * 100, in hundredths of a percent
CpuFromIdle(n) == Num((100 - n.v) * 100)

\* a throwing query that aborts the whole cycle, shell-backed or not
OnQueryThrowAborts(w, c) == Finish(Catch(w, c, w.cycles[c].key), c)

\* queryInstant throws.  updateMetrics catches it around the query loop and
\* goes on to store the record without the map; in
\* updateLocalPrometheusMetrics it ends the cycle
OnQueryThrow(w, c) ==
    LET cy == w.cycles[c] IN
    IF cy.kind = "shell"
    THEN Finish(Ended(Publish(w, cy.key, cy.obj, c), c, cy.key, "primaryOnly"), c)
    ELSE Finish(Catch(w, c, cy.key), c)

\* the world after queryInstant of the current query settles
AfterQuery(w, c, outcome, nd) ==
    LET cy == w.cycles[c]
        pm == IF outcome.result # <<>>
              THEN Put(cy.pm, PromQueryNames[cy.idx], ParseFloat(outcome.result[1]))
              ELSE cy.pm
    IN  IF outcome.throws
        THEN OnQueryThrow(w, c)
        ELSE IF cy.idx < NumQueries
             THEN [w EXCEPT !.cycles[c].pm = pm, !.cycles[c].idx = cy.idx + 1]
             ELSE LET old == w.heap[cy.obj]
                      new == IF cy.kind = "local" /\ nd.isLocalOnly
                                /\ Truthy(pm, PromQueryNames[1])
                             THEN [old EXCEPT !.prometheusMetrics = <<pm>>,
                                              !.cpu = CpuFromIdle(pm[PromQueryNames[1]])]
                             ELSE [old EXCEPT !.prometheusMetrics = <<pm>>]
                      w1 == [w EXCEPT !.heap[cy.obj] = new]
                  IN  Finish(Ended(Publish(w1, cy.key, cy.obj, c), c, cy.key,
                                   "published"), c)

QueryDone(c, outcome) ==
    /\ c \in DOMAIN cycles
    /\ cycles[c].phase = "query"
    /\ outcome \in QueryOutcomes
    /\ (outcome.throws => outcome.result = <<>>)
    /\ SetWorld(AfterQuery(World, c, outcome, nodes[cycles[c].node]))
    /\ UNCHANGED <<explorerVars, callerVars>>

\* a setInterval handle fires
Tick(t) ==
    /\ t \in DOMAIN timers
    /\ nextCycle <= MaxCycles
    /\ LET nd == nodes[timers[t].node] IN
       SetWorld(IF timers[t].kind = "shell"
                THEN updateMetrics(World, nd)
                ELSE updateLocalPrometheusMetrics(World, nd))
    /\ UNCHANGED <<explorerVars, callerVars>>

\* ------------------------------------------------------------------------
\* ServerExplorerProvider
\* ------------------------------------------------------------------------
\* saveServers: the persisted copy of this.servers
saveServers(ns, srv) ==
    [i \in 1..Len(srv) |->
        [label |-> ns[srv[i]].label, host |-> ns[srv[i]].host,
         username |-> ns[srv[i]].username, port |-> ns[srv[i]].port,
         prometheusConfig |-> ns[srv[i]].prometheusConfig,
         isLocalOnly |-> ns[srv[i]].isLocalOnly]]

\* new ServerNode(...)
ServerNode(id, label, host, username, port, isLocalOnly, prometheusConfig) ==
    [id |-> id, label |-> label, host |-> host, username |-> username,
     port |-> port, isLocalOnly |-> isLocalOnly,
     prometheusConfig |-> prometheusConfig, isConnected |-> FALSE]

InServers(n) == \E i \in 1..Len(servers) : servers[i] = n

\* this.servers.splice(this.servers.indexOf(node), 1)
Splice(srv, n) ==
    LET i == CHOOSE j \in 1..Len(srv) :
                 srv[j] = n /\ \A m \in 1..(j - 1) : srv[m] # n
    IN  SubSeq(srv, 1, i - 1) \o SubSeq(srv, i + 1, Len(srv))

PendingAdds == {p \in pending : p.kind = "add"}

\* the promise around conn.connect() is settled by resolve or by reject: the
\* code after the await, or the catch block, runs
Settled(ao, c, how) ==
    Put(ao, c, (IF Has(ao, c) THEN ao[c] ELSE <<>>) \o <<how>>)

\* addServer up to conn.connect(): the prompts are answered, a client is
\* created and the attempt waits for 'ready', 'error' or 'timeout'
AddServerBegin(label, host, username, port, prom) ==
    /\ nextConn <= MaxConns
    /\ nextNode + Cardinality(PendingAdds) <= MaxNodes
    /\ pending' = pending \cup
           {[kind |-> "add", conn |-> nextConn, node |-> 0, label |-> label,
             host |-> host, username |-> username, port |-> port,
             prom |-> prom]}
    /\ sessions' = Put(sessions, nextConn, "connecting")
    /\ nextConn' = nextConn + 1
    /\ UNCHANGED <<nodes, servers, connections, saved, nextNode, providerVars,
                   timers, cycles, heap, nextTimer, nextCycle, nextObj,
                   historyVars, callerVars>>

\* connectToServer up to conn.connect(); the command is offered on
\* disconnected servers
ConnectBegin(n) ==
    /\ InServers(n)
    /\ ~nodes[n].isConnected
    /\ ~nodes[n].isLocalOnly
    /\ nextConn <= MaxConns
    /\ pending' = pending \cup
           {[kind |-> "connect", conn |-> nextConn, node |-> n,
             label |-> nodes[n].label, host |-> nodes[n].host,
             username |-> nodes[n].username, port |-> nodes[n].port,
             prom |-> <<>>]}
    /\ sessions' = Put(sessions, nextConn, "connecting")
    /\ nextConn' = nextConn + 1
    /\ UNCHANGED <<nodes, servers, connections, saved, nextNode, providerVars,
                   timers, cycles, heap, nextTimer, nextCycle, nextObj,
                   historyVars, callerVars>>

\* 'ready' of addServer's client: the node is created, stored, marked
\* connected and monitored
AddServerReady(p) ==
    /\ p \in pending /\ p.kind = "add"
    /\ nextCycle <= MaxCycles
    /\ LET server == ServerNode(nextNode, p.label, p.host, p.username, p.port,
                                FALSE, p.prom)
           nd == [server EXCEPT !.isConnected = TRUE]
           w  == [World EXCEPT !.sessions[p.conn] = "ready",
                               !.attemptOutcomes = Settled(@, p.conn, "ready")]
       IN  /\ nodes' = Put(nodes, nextNode, nd)
           /\ servers' = Append(servers, nextNode)
           /\ saved' = saveServers(Put(nodes, nextNode, server), servers')
           /\ connections' = Put(connections, ExplorerGetServerKey(server), p.conn)
           /\ SetWorld(startMonitoring(w, p.conn, nd))
    /\ nextNode' = nextNode + 1
    /\ pending' = pending \ {p}
    /\ UNCHANGED <<nextConn, callerVars>>

\* 'ready' of connectToServer's client
ConnectReady(p) ==
    /\ p \in pending /\ p.kind = "connect"
    /\ nextCycle <= MaxCycles
    /\ LET nd == [nodes[p.node] EXCEPT !.isConnected = TRUE]
           w  == [World EXCEPT !.sessions[p.conn] = "ready",
                               !.attemptOutcomes = Settled(@, p.conn, "ready")]
       IN  /\ nodes' = [nodes EXCEPT ![p.node] = nd]
           /\ connections' = Put(connections, ExplorerGetServerKey(nd), p.conn)
           /\ SetWorld(startMonitoring(w, p.conn, nd))
    /\ pending' = pending \ {p}
    /\ UNCHANGED <<servers, saved, nextNode, nextConn, callerVars>>

\* 'error' of a connecting client: the attempt is rejected and reported
ConnectError(p) ==
    /\ p \in pending
    /\ sessions' = [sessions EXCEPT ![p.conn] = "failed"]
    /\ pending' = pending \ {p}
    /\ attemptOutcomes' = Settled(attemptOutcomes, p.conn, "failed")
    /\ UNCHANGED <<nodes, servers, connections, saved, nextNode, nextConn,
                   providerVars, timers, cycles, heap, nextTimer, nextCycle,
                   nextObj, cycleOutcome, publishedBy, callerVars>>

\* the provider and runtime after disconnectFromServer(node)
DisconnectWorld(w, conns, nd) ==
    LET ek == ExplorerGetServerKey(nd)
        w1 == IF Has(conns, ek)
              THEN [w EXCEPT !.sessions = End(@, conns[ek])]
              ELSE w
    IN  stopMonitoring(w1, nd)

disconnectFromServer(n) ==
    /\ InServers(n)
    /\ nodes[n].isConnected
    /\ connections' = Del(connections, ExplorerGetServerKey(nodes[n]))
    /\ SetWorld(DisconnectWorld(World, connections, nodes[n]))
    /\ nodes' = [nodes EXCEPT ![n].isConnected = FALSE]
    /\ UNCHANGED <<servers, saved, pending, nextNode, nextConn, callerVars>>

removeServer(n) ==
    /\ InServers(n)
    /\ IF nodes[n].isConnected
       THEN /\ connections' = Del(connections, ExplorerGetServerKey(nodes[n]))
            /\ SetWorld(DisconnectWorld(World, connections, nodes[n]))
            /\ nodes' = [nodes EXCEPT ![n].isConnected = FALSE]
       ELSE UNCHANGED <<connections, nodes, providerVars, runtimeVars,
                        historyVars>>
    /\ servers' = Splice(servers, n)
    /\ saved' = saveServers(nodes', servers')
    /\ UNCHANGED <<pending, nextNode, nextConn, callerVars>>

\* configurePrometheus after its prompts: the configuration is removed
\* (cfg = <<>>) or set, saved, and a connected server's monitoring restarted
configurePrometheus(n, cfg) ==
    /\ InServers(n)
    /\ cfg = <<>> => nodes[n].prometheusConfig # <<>>
    /\ LET nd == [nodes[n] EXCEPT !.prometheusConfig = cfg]
           ek == ExplorerGetServerKey(nd)
           restart == Has(connections, ek) /\ nd.isConnected
       IN  /\ restart => nextCycle <= MaxCycles
           /\ nodes' = [nodes EXCEPT ![n] = nd]
           /\ saved' = saveServers(nodes', servers)
           /\ SetWorld(IF restart
                       THEN startMonitoring(stopMonitoring(World, nd),
                                            connections[ek], nd)
                       ELSE World)
    /\ UNCHANGED <<servers, connections, pending, nextNode, nextConn, callerVars>>

addLocalPrometheus(label, cfg) ==
    /\ nextNode + Cardinality(PendingAdds) <= MaxNodes
    /\ nextCycle <= MaxCycles
    /\ LET server == ServerNode(nextNode, label, "localhost", "local", 9090,
                                TRUE, <<cfg>>)
       IN  /\ nodes' = Put(nodes, nextNode, server)
           /\ servers' = Append(servers, nextNode)
           /\ saved' = saveServers(nodes', servers')
           /\ SetWorld(startMonitoringLocalPrometheus(World, server))
    /\ nextNode' = nextNode + 1
    /\ UNCHANGED <<connections, pending, nextConn, callerVars>>

\* ------------------------------------------------------------------------
\* Specification of the explorer, the store and their poll cycles
\* ------------------------------------------------------------------------
\* what globalState may hold at activation: nothing, or servers saved by an
\* earlier run
SavedAtStartup ==
    {<<>>} \cup
    { <<[label |-> l, host |-> h, username |-> u, port |-> pt,
         prometheusConfig |-> pc, isLocalOnly |-> FALSE]>> :
        l \in Labels, h \in Hosts, u \in Users, pt \in Ports,
        pc \in {<<>>} \cup {<<c>> : c \in PromConfigs} } \cup
    { <<[label |-> l, host |-> "localhost", username |-> "local", port |-> 9090,
         prometheusConfig |-> <<c>>, isLocalOnly |-> TRUE]>> :
        l \in Labels, c \in PromConfigs }

\* loadServers: one disconnected ServerNode per saved server
loadServers(savedServers) ==
    [i \in 1..Len(savedServers) |->
        ServerNode(i, savedServers[i].label, savedServers[i].host,
                   savedServers[i].username, savedServers[i].port,
                   savedServers[i].isLocalOnly,
                   savedServers[i].prometheusConfig)]

Init ==
    /\ saved \in SavedAtStartup
    /\ nodes = loadServers(saved)
    /\ servers = [i \in 1..Len(saved) |-> i]
    /\ connections = EmptyMap
    /\ pending = {}
    /\ nextNode = Len(saved) + 1
    /\ nextConn = 1
    /\ serverConnections = EmptyMap
    /\ serverMetrics = EmptyMap
    /\ updateIntervals = EmptyMap
    /\ prometheusClients = EmptyMap
    /\ fired = 0
    /\ sessions = EmptyMap
    /\ timers = EmptyMap
    /\ cycles = EmptyMap
    /\ heap = EmptyMap
    /\ nextTimer = 1
    /\ nextCycle = 1
    /\ nextObj = 1
    /\ cycleOutcome = EmptyMap
    /\ publishedBy = EmptyMap
    /\ attemptOutcomes = EmptyMap
    /\ returned = <<>>
    /\ promCall = <<>>
    /\ NoPanels
    /\ NoLogs

OptPromConfigs == {<<>>} \cup {<<c>> : c \in PromConfigs}

Next ==
    \/ \E l \in Labels, h \in Hosts, u \in Users, pt \in Ports,
          pc \in OptPromConfigs : AddServerBegin(l, h, u, pt, pc)
    \/ \E n \in DOMAIN nodes : ConnectBegin(n)
    \/ \E p \in pending : AddServerReady(p)
    \/ \E p \in pending : ConnectReady(p)
    \/ \E p \in pending : ConnectError(p)
    \/ \E n \in DOMAIN nodes : disconnectFromServer(n)
    \/ \E n \in DOMAIN nodes : removeServer(n)
    \/ \E n \in DOMAIN nodes, pc \in OptPromConfigs : configurePrometheus(n, pc)
    \/ \E l \in Labels, pc \in PromConfigs : addLocalPrometheus(l, pc)
    \/ \E t \in DOMAIN timers : Tick(t)
    \/ \E c \in DOMAIN cycles : ExecError(c)
    \/ \E c \in DOMAIN cycles : StreamError(c)
    \/ \E c \in DOMAIN cycles, d \in AllProbeOutputs : StreamEnd(c, d)
    \/ \E c \in DOMAIN cycles, o \in QueryOutcomes : QueryDone(c, o)

Spec == Init /\ [][Next]_vars

\* ------------------------------------------------------------------------
\* Properties
\* ------------------------------------------------------------------------
Keys == {getServerKey(nodes[n]) : n \in DOMAIN nodes}

\* the active timers whose callback polls the target key k
TimersOfKey(k) == {t \in DOMAIN timers : getServerKey(nodes[timers[t].node]) = k}

\* C1: for every target key at most one recurring poll timer is active
C1_AtMostOneTimerPerKey ==
    \A k \in Keys : Cardinality(TimersOfKey(k)) <= 1

\* C2: when disconnectFromServer, and with it stopMonitoring(target), has
\* returned, no timer polling the target is active, getMetrics(target) is
\* none and one change notification has been fired
C2_StopLeavesNoTimer ==
    [][\A n \in DOMAIN nodes :
          disconnectFromServer(n) =>
             /\ TimersOfKey(getServerKey(nodes[n]))' = {}
             /\ getMetrics(nodes[n])' = <<>>
             /\ fired' = fired + 1]_vars

\* C3: no record with an unparsed (NaN) field is ever stored: a cycle with a
\* malformed probe output fails as a whole
C3_NoUnparsedFieldStored ==
    \A k \in DOMAIN serverMetrics : NoNaN(heap[serverMetrics[k]])

\* a step of a poll cycle: a timer firing or one of the cycle's callbacks
CycleStep ==
    \/ \E t \in DOMAIN timers : Tick(t)
    \/ \E c \in DOMAIN cycles : ExecError(c)
    \/ \E c \in DOMAIN cycles : StreamError(c)
    \/ \E c \in DOMAIN cycles, d \in AllProbeOutputs : StreamEnd(c, d)
    \/ \E c \in DOMAIN cycles, o \in QueryOutcomes : QueryDone(c, o)

\* the step is the failure of a cycle, or a later callback of a failed one
FailureOfCycle ==
    \/ \E c \in (DOMAIN cycleOutcome') \ (DOMAIN cycleOutcome) :
          cycleOutcome'[c].how \in {"failed", "dead"}
    \/ \E c \in DOMAIN cycles :
          /\ cycles[c].settled = "rejected"
          /\ (c \notin DOMAIN cycles' \/ cycles'[c] # cycles[c])

\* C4: a failing poll cycle neither clears nor replaces the stored record:
\* getMetrics returns after the failure what it returned before it
C4_FailedCycleKeepsRecord ==
    [][(CycleStep /\ FailureOfCycle) =>
          \A n \in DOMAIN nodes : getMetrics(nodes[n])' = getMetrics(nodes[n])]_vars

\* a cycle failed after an earlier cycle's record had been stored, and that
\* record is still the stored one
C4_Witness ==
    \E c \in DOMAIN cycleOutcome :
        /\ cycleOutcome[c].how = "failed"
        /\ Has(serverMetrics, cycleOutcome[c].key)
        /\ Has(publishedBy, cycleOutcome[c].key)
        /\ publishedBy[cycleOutcome[c].key] \in 1..(c - 1)

\* C5: once stopMonitoring(target) has run, no record appears for the target
\* until monitoring is started again: a key with a stored record is a key
\* that is being monitored
C5_NoPublishAfterStop ==
    \A k \in DOMAIN serverMetrics : Has(updateIntervals, k)

\* C6: the stored record of a key is never replaced by the record of a cycle
\* that started earlier than the cycle whose record is stored
C6_NoOlderOverwrite ==
    [][\A k \in (DOMAIN publishedBy) \cap (DOMAIN publishedBy') :
          publishedBy'[k] >= publishedBy[k]]_vars

\* C7: when a secondary-source query of a shell cycle throws, the cycle
\* stores the record built from its five probe outputs, with no
\* secondary-source map
C7_SecondaryFailureKeepsPrimary ==
    [][\A c \in DOMAIN cycles :
          (/\ cycles[c].kind = "shell"
           /\ QueryDone(c, [throws |-> TRUE, result |-> <<>>]))
          => /\ Has(serverMetrics', cycles[c].key)
             /\ heap'[serverMetrics'[cycles[c].key]] = BuildRecord(cycles[c].results)
             /\ heap'[serverMetrics'[cycles[c].key]].prometheusMetrics = <<>>]_vars

\* the stored record is the one of a cycle whose secondary-source query threw
C7_Witness ==
    \E c \in DOMAIN cycleOutcome :
        /\ cycleOutcome[c].how = "primaryOnly"
        /\ Has(publishedBy, cycleOutcome[c].key)
        /\ publishedBy[cycleOutcome[c].key] = c
        /\ NoNaN(heap[serverMetrics[cycleOutcome[c].key]])
        /\ heap[serverMetrics[cycleOutcome[c].key]].prometheusMetrics = <<>>

\* C8: every open session is the one the connections map holds for its
\* target key
C8_NoUnreferencedOpenSession ==
    \A c \in DOMAIN sessions :
        sessions[c] = "ready" => \E k \in DOMAIN connections : connections[k] = c

\* C9: when removeServer(target) has completed, no session, poll timer,
\* secondary-source client or stored record of the target remains
C9_RemoveLeavesNothing ==
    [][\A n \in DOMAIN nodes :
          removeServer(n) =>
             LET k == getServerKey(nodes[n]) IN
             /\ ~Has(connections', ExplorerGetServerKey(nodes[n]))
             /\ ~Has(serverConnections', k)
             /\ \A t \in DOMAIN timers' : timers'[t].node # n
             /\ ~Has(prometheusClients', k)
             /\ ~Has(serverMetrics', k)]_vars

\* C10: stopMonitoring directly followed by startMonitoring, as in
\* configurePrometheus, starts a poll cycle at once on a session on which
\* commands can be executed
C10_RestartPollsOpenSession ==
    [][\A n \in DOMAIN nodes, pc \in OptPromConfigs :
          (/\ configurePrometheus(n, pc)
           /\ Has(connections, ExplorerGetServerKey(nodes[n]))
           /\ nodes[n].isConnected)
          => \E c \in (DOMAIN cycles') \ (DOMAIN cycles) :
                sessions'[cycles'[c].conn] = "ready"]_vars

\* ------------------------------------------------------------------------
\* Callers of getMetrics: thufir.analyzeMetrics and ServerMetricsPanel._update
\* ------------------------------------------------------------------------
\* a read that starts a poll of the target
GetMetricsFetches(w, nd) == updateMetrics(w, nd)

\* the provider and the runtime after getMetrics(node): the body is the one
\* Map lookup
AfterGetMetrics(w, nd) == w

\* getMetrics(node) as called by a command or a panel: the caller receives
\* the stored object, or undefined
GetMetrics(n) ==
    /\ returned' = IF Has(serverMetrics, getServerKey(nodes[n]))
                   THEN <<serverMetrics[getServerKey(nodes[n])]>>
                   ELSE <<>>
    /\ SetWorld(AfterGetMetrics(World, nodes[n]))
    /\ UNCHANGED <<explorerVars, promCall, panelVars, logVars>>

NextRead ==
    \/ Next
    \/ \E n \in DOMAIN nodes : GetMetrics(n)

SpecRead == Init /\ [][NextRead]_vars

\* C11: getMetrics(target) returns the stored record or none, leaves every
\* map of the provider, every timer, session, cycle and record unchanged and
\* fires no notification
C11_GetMetricsIsPureRead ==
    [][\A n \in DOMAIN nodes :
          GetMetrics(n) =>
             /\ returned' = (IF Has(serverMetrics, getServerKey(nodes[n]))
                             THEN <<serverMetrics[getServerKey(nodes[n])]>>
                             ELSE <<>>)
             /\ UNCHANGED <<explorerVars, providerVars, runtimeVars,
                            historyVars>>]_vars

\* a read has returned the record that is stored for a polled target
C11_Witness ==
    /\ returned # <<>>
    /\ \E k \in DOMAIN serverMetrics :
          /\ returned = <<serverMetrics[k]>>
          /\ Has(updateIntervals, k)
          /\ cycles # EmptyMap

\* ------------------------------------------------------------------------
\* collectMetrics on outputs of the documented shapes
\* ------------------------------------------------------------------------
\* load lines of the documented shape "load1, load5, load15" (three comma-
\* or space-separated floats) with the three numbers they carry, in
\* hundredths
LoadLines ==
    { [line |-> <<"0", ".", "1", ",", " ", "0", ".", "2", ",", " ", "0", ".", "3">>,
       values |-> <<10, 20, 30>>],
      [line |-> <<"0", ".", "1", "5", ",", "0", ".", "2", "2", ",", "0", ".", "3", "1">>,
       values |-> <<15, 22, 31>>],
      [line |-> <<"0", ".", "1", " ", "0", ".", "2", " ", "0", ".", "3">>,
       values |-> <<10, 20, 30>>] }

\* outputs of the documented shapes, per command index: a float 0-100, two
\* integers, two numbers, one number, a load line
ValidProbeOutputs ==
    << { <<"7", ".", "5", "\n">>, <<"0", ".", "0">>, <<"1", "0", "0">> },
       { <<"2", "0", " ", "8", "0">>, <<"0", " ", "1", "0", "2", "4">>,
         <<"5", "1", "2", " ", "2", "0", "4", "8">> },
       { <<"1", "2", "G", " ", "5", "0", "G">>, <<"1", ".", "5", " ", "5", "0">> },
       { <<"3", "\n">>, <<"8", "6", "4", "0", "0">> },
       { ll.line : ll \in LoadLines } >>

\* stream 'end' of the current command of a cycle, with an output of the
\* documented shape
CollectStreamEnd(c, data) ==
    /\ c \in DOMAIN cycles
    /\ cycles[c].phase = "probe"
    /\ data \in ValidProbeOutputs[cycles[c].idx]
    /\ SetWorld(AfterStreamEnd(World, c, data))
    /\ UNCHANGED <<explorerVars, callerVars>>

\* the provider and runtime before anything is monitored, with one ssh2
\* client that has become ready
ReadyWorld ==
    [serverConnections |-> EmptyMap, serverMetrics |-> EmptyMap,
     updateIntervals |-> EmptyMap, prometheusClients |-> EmptyMap,
     fired |-> 0, sessions |-> Put(EmptyMap, 1, "ready"), timers |-> EmptyMap,
     cycles |-> EmptyMap, heap |-> EmptyMap, nextTimer |-> 1,
     nextCycle |-> 1, nextObj |-> 1,
     cycleOutcome |-> EmptyMap, publishedBy |-> EmptyMap,
     attemptOutcomes |-> Put(EmptyMap, 1, <<"ready">>)]

\* the saved server sv has just been connected: startMonitoring has issued
\* the first command of the first cycle
ConnectedAtStart(sv) ==
    /\ saved = sv
    /\ nodes = [i \in 1..1 |-> [loadServers(sv)[i] EXCEPT !.isConnected = TRUE]]
    /\ servers = <<1>>
    /\ connections = Put(EmptyMap, ExplorerGetServerKey(nodes[1]), 1)
    /\ pending = {}
    /\ nextNode = 2
    /\ nextConn = 2
    /\ returned = <<>>
    /\ promCall = <<>>
    /\ NoPanels
    /\ NoLogs
    /\ LET w == startMonitoring(ReadyWorld, 1, nodes[1])
       IN  /\ serverConnections = w.serverConnections
           /\ serverMetrics = w.serverMetrics
           /\ updateIntervals = w.updateIntervals
           /\ prometheusClients = w.prometheusClients
           /\ fired = w.fired
           /\ sessions = w.sessions
           /\ timers = w.timers
           /\ cycles = w.cycles
           /\ heap = w.heap
           /\ nextTimer = w.nextTimer
           /\ nextCycle = w.nextCycle
           /\ nextObj = w.nextObj
           /\ cycleOutcome = w.cycleOutcome
           /\ publishedBy = w.publishedBy
           /\ attemptOutcomes = w.attemptOutcomes

SavedShellServers == {sv \in SavedAtStartup : sv # <<>> /\ ~sv[1].isLocalOnly}

\* a saved server without secondary source has just been connected
InitCollect ==
    \E sv \in {x \in SavedShellServers : x[1].prometheusConfig = <<>>} :
        ConnectedAtStart(sv)

NextCollect ==
    \E c \in DOMAIN cycles :
        \E d \in ValidProbeOutputs[cycles[c].idx] : CollectStreamEnd(c, d)

SpecCollect == InitCollect /\ [][NextCollect]_vars

\* C12: when the five outputs have the documented shapes, the record that
\* collectMetrics resolves has cpu, memory, disk and uptime set and a
\* loadAverage of exactly the three numbers of the load line, in its order
C12_ValidOutputsGiveFullRecord ==
    [][\A c \in DOMAIN cycles, ll \in LoadLines :
          (/\ cycles[c].idx = NumCommands
           /\ CollectStreamEnd(c, ll.line))
          => /\ Has(serverMetrics', cycles[c].key)
             /\ NoNaN(heap'[serverMetrics'[cycles[c].key]])
             /\ heap'[serverMetrics'[cycles[c].key]].loadAverage
                    = [i \in 1..3 |-> Num(ll.values[i])]]_vars

\* ------------------------------------------------------------------------
\* Two shell servers of one user on one host, on different ports
\* ------------------------------------------------------------------------
SecondPort == 2222

SecondLabels == {"a", "b"}

\* what globalState holds after addServer has been run for u@h:22 and for
\* u@h:2222, under one label or under two
SavedPairs ==
    { << [label |-> "a", host |-> "h", username |-> "u", port |-> 22,
          prometheusConfig |-> <<>>, isLocalOnly |-> FALSE],
         [label |-> l, host |-> "h", username |-> "u", port |-> SecondPort,
          prometheusConfig |-> <<>>, isLocalOnly |-> FALSE] >> :
        l \in SecondLabels }

InitTwo ==
    /\ saved \in SavedPairs
    /\ nodes = loadServers(saved)
    /\ servers = [i \in 1..Len(saved) |-> i]
    /\ connections = EmptyMap
    /\ pending = {}
    /\ nextNode = Len(saved) + 1
    /\ nextConn = 1
    /\ serverConnections = EmptyMap
    /\ serverMetrics = EmptyMap
    /\ updateIntervals = EmptyMap
    /\ prometheusClients = EmptyMap
    /\ fired = 0
    /\ sessions = EmptyMap
    /\ timers = EmptyMap
    /\ cycles = EmptyMap
    /\ heap = EmptyMap
    /\ nextTimer = 1
    /\ nextCycle = 1
    /\ nextObj = 1
    /\ cycleOutcome = EmptyMap
    /\ publishedBy = EmptyMap
    /\ attemptOutcomes = EmptyMap
    /\ returned = <<>>
    /\ promCall = <<>>
    /\ NoPanels
    /\ NoLogs

\* the servers are connected, polled and disconnected
NextTwo ==
    \/ \E n \in DOMAIN nodes : ConnectBegin(n)
    \/ \E p \in pending : ConnectReady(p)
    \/ \E n \in DOMAIN nodes : disconnectFromServer(n)
    \/ \E t \in DOMAIN timers : Tick(t)
    \/ \E c \in DOMAIN cycles : ExecError(c)
    \/ \E c \in DOMAIN cycles : StreamError(c)
    \/ \E c \in DOMAIN cycles, d \in AllProbeOutputs : StreamEnd(c, d)

SpecTwo == InitTwo /\ [][NextTwo]_vars

TimersOfNode(n) == {t \in DOMAIN timers : timers[t].node = n}

\* the session the explorer holds for node n, with its state
SessionOf(n) ==
    IF Has(connections, ExplorerGetServerKey(nodes[n]))
    THEN <<connections[ExplorerGetServerKey(nodes[n])],
           sessions[connections[ExplorerGetServerKey(nodes[n])]]>>
    ELSE <<>>

\* monitoring of node a is started or stopped, or a poll of a fails
StartStopOrFailedPollOf(a) ==
    \/ \E p \in pending : p.node = a /\ ConnectReady(p)
    \/ disconnectFromServer(a)
    \/ \E c \in DOMAIN cycles :
          cycles[c].node = a /\ (ExecError(c) \/ StreamError(c))

\* C13: starting, stopping or a failing poll of target A leaves the stored
\* record, the timers and the session of every target B with another identity
\* key (principal, host, port) unchanged, also when A and B differ only in
\* port
C13_TargetsAreIndependent ==
    [][\A a, b \in DOMAIN nodes :
          (/\ ExplorerGetServerKey(nodes[a]) # ExplorerGetServerKey(nodes[b])
           /\ StartStopOrFailedPollOf(a))
          => /\ getMetrics(nodes[b])' = getMetrics(nodes[b])
             /\ TimersOfNode(b)' = TimersOfNode(b)
             /\ SessionOf(b)' = SessionOf(b)]_vars

\* ------------------------------------------------------------------------
\* Connect attempts and the signals of their ssh2 client
\* ------------------------------------------------------------------------
PendingConns == {p.conn : p \in pending}

\* a client whose 'timeout' signal has no listener that rejects
TimeoutNotHandled(p) ==
    /\ p \in pending
    /\ UNCHANGED vars

\* 'timeout' of a connecting client: reject(new Error('Connection timed
\* out')); the client itself is left as it is
ConnectTimeout(p) ==
    /\ p \in pending
    /\ pending' = pending \ {p}
    /\ attemptOutcomes' = Settled(attemptOutcomes, p.conn, "timeout")
    /\ UNCHANGED <<nodes, servers, connections, saved, nextNode, nextConn,
                   providerVars, runtimeVars, cycleOutcome, publishedBy,
                   callerVars>>

SignalNames == {"ready", "error", "timeout"}

\* the client after one more signal
AfterSignal(st, sig) ==
    CASE sig = "ready" -> "ready"
      [] sig = "error" -> IF st = "connecting" THEN "failed" ELSE "closed"
      [] OTHER -> st

\* a signal of a client whose attempt is settled: the listeners are still
\* registered and call resolve or reject, which a settled promise ignores
LateSignal(c, sig) ==
    /\ c \in (DOMAIN sessions) \ PendingConns
    /\ sig = "ready" => sessions[c] = "connecting"
    /\ sig = "error" => sessions[c] \in {"connecting", "ready"}
    /\ sessions' = [sessions EXCEPT ![c] = AfterSignal(@, sig)]
    /\ UNCHANGED <<explorerVars, providerVars, timers, cycles, heap, nextTimer,
                   nextCycle, nextObj, historyVars, callerVars>>

AttemptSteps ==
    \/ \E l \in Labels, h \in Hosts, u \in Users, pt \in Ports,
          pc \in OptPromConfigs : AddServerBegin(l, h, u, pt, pc)
    \/ \E n \in DOMAIN nodes : ConnectBegin(n)
    \/ \E p \in pending : AddServerReady(p)
    \/ \E p \in pending : ConnectReady(p)
    \/ \E p \in pending : ConnectError(p)
    \/ \E p \in pending : ConnectTimeout(p)
    \/ \E c \in DOMAIN sessions, sig \in SignalNames : LateSignal(c, sig)
    \/ \E n \in DOMAIN nodes : disconnectFromServer(n)

\* readyTimeout: 10000 is passed to conn.connect, so an attempt that gets
\* neither 'ready' nor 'error' gets the timeout signal
TimeoutArrives ==
    \A c \in 1..MaxConns :
        WF_vars(\E p \in pending : p.conn = c /\ ConnectTimeout(p))

SpecConnect == Init /\ [][AttemptSteps]_vars /\ TimeoutArrives

\* the outcomes delivered so far for the attempt of client c
OutcomesOf(c) == IF Has(attemptOutcomes, c) THEN attemptOutcomes[c] ELSE <<>>

\* C14: a connect attempt has no outcome while it is pending and exactly one,
\* Ready or failure, from then on, whatever signals follow; and every pending
\* attempt is eventually settled
C14_AttemptSettlesExactlyOnce ==
    /\ [](\A c \in DOMAIN sessions :
             IF c \in PendingConns
             THEN OutcomesOf(c) = <<>>
             ELSE Len(OutcomesOf(c)) = 1)
    /\ \A c \in 1..MaxConns :
          (c \in PendingConns) ~> (c \notin PendingConns /\ Len(OutcomesOf(c)) = 1)

\* an attempt failed by the timeout signal, and its client became ready
\* afterwards without a second outcome
C14_Witness ==
    \E c \in DOMAIN sessions :
        /\ OutcomesOf(c) = <<"timeout">>
        /\ sessions[c] = "ready"

\* ------------------------------------------------------------------------
\* PrometheusClient: one call against one response of the server
\* ------------------------------------------------------------------------
MaxAlerts == 3

AlertStates == {"firing", "pending", "inactive"}

\* the alerts of a response: entry i is the raw alert named i
RawAlerts(states) ==
    [i \in 1..Len(states) |->
        [labels |-> [alertname |-> i], annotations |-> <<>>,
         state |-> states[i], activeAt |-> i, value |-> "1"]]

RECURSIVE SeqsUpTo(_, _)
SeqsUpTo(S, n) ==
    IF n = 0 THEN {<<>>}
    ELSE SeqsUpTo(S, n - 1) \cup
         {Append(q, x) : q \in {r \in SeqsUpTo(S, n - 1) : Len(r) = n - 1}, x \in S}

\* response.data.status as the server may send it
BodyStatuses == {"success", "error", "Success", "undefined"}

\* a response: the request failed (no 2xx answer, axios throws), or a body
\* with a top-level status and the endpoint's data
AlertResponses ==
    { [failed |-> f, status |-> st, data |-> RawAlerts(q)] :
        f \in BOOLEAN, st \in BodyStatuses, q \in SeqsUpTo(AlertStates, MaxAlerts) }

DataResponses ==
    { [failed |-> f, status |-> st, data |-> d] :
        f \in BOOLEAN, st \in BodyStatuses, d \in {<<>>, <<"r1">>, <<"r1", "r2">>} }

Throws == [throws |-> TRUE, value |-> <<>>]

Returns(val) == [throws |-> FALSE, value |-> val]

\* Array.prototype.filter(alert => alert.state === 'firing')
RECURSIVE FilterFiring(_)
FilterFiring(alerts) ==
    IF alerts = <<>> THEN <<>>
    ELSE IF Head(alerts).state = "firing"
         THEN <<Head(alerts)>> \o FilterFiring(Tail(alerts))
         ELSE FilterFiring(Tail(alerts))

\* Array.prototype.map to the Alert shape
MapToAlert(alerts) ==
    [i \in 1..Len(alerts) |->
        [name |-> alerts[i].labels.alertname, state |-> alerts[i].state,
         labels |-> alerts[i].labels, annotations |-> alerts[i].annotations,
         activeAt |-> alerts[i].activeAt, value |-> alerts[i].value]]

\* a call that returns the data whatever the body's status is
ReturnsDataUnchecked(resp) ==
    IF resp.failed THEN Throws ELSE Returns(resp.data)

\* a getAlerts that returns every alert of the response
getAlertsUnfiltered(resp) ==
    IF ~resp.failed /\ resp.status = "success"
    THEN Returns(MapToAlert(resp.data))
    ELSE Throws

queryInstant(resp) ==
    IF ~resp.failed /\ resp.status = "success" THEN Returns(resp.data) ELSE Throws

queryRange(resp) ==
    IF ~resp.failed /\ resp.status = "success" THEN Returns(resp.data) ELSE Throws

getMetricNames(resp) ==
    IF ~resp.failed /\ resp.status = "success" THEN Returns(resp.data) ELSE Throws

getAlerts(resp) ==
    IF ~resp.failed /\ resp.status = "success"
    THEN Returns(MapToAlert(FilterFiring(resp.data)))
    ELSE Throws

getRules(resp) ==
    IF ~resp.failed /\ resp.status = "success" THEN Returns(resp.data) ELSE Throws

CallNames == {"queryInstant", "queryRange", "getMetricNames", "getAlerts", "getRules"}

OutcomeOf(call, resp) ==
    CASE call = "queryInstant" -> queryInstant(resp)
      [] call = "queryRange" -> queryRange(resp)
      [] call = "getMetricNames" -> getMetricNames(resp)
      [] call = "getAlerts" -> getAlerts(resp)
      [] call = "getRules" -> getRules(resp)

\* one call of the client, answered with resp
PromCall(call, resp) ==
    /\ promCall' = <<[call |-> call, response |-> resp,
                      outcome |-> OutcomeOf(call, resp)]>>
    /\ UNCHANGED <<explorerVars, providerVars, runtimeVars, historyVars,
                   returned, panelVars, logVars>>

NextProm ==
    \/ \E resp \in AlertResponses : PromCall("getAlerts", resp)
    \/ \E call \in CallNames \ {"getAlerts"}, resp \in DataResponses :
          PromCall(call, resp)

SpecProm == Init /\ [][NextProm]_vars

\* the names of the entries of a raw alert list that are firing, in order
FiringNames(raw) ==
    LET firing == SelectSeq(raw, LAMBDA a : a.state = "firing")
    IN  [i \in 1..Len(firing) |-> firing[i].labels.alertname]

\* C15: getAlerts returns exactly the entries of the response whose state is
\* firing, in their original order, and no pending or inactive entry
C15_OnlyFiringAlertsInOrder ==
    \A i \in 1..Len(promCall) :
        (promCall[i].call = "getAlerts" /\ ~promCall[i].outcome.throws)
        => LET out == promCall[i].outcome.value IN
           /\ \A j \in 1..Len(out) : out[j].state = "firing"
           /\ [j \in 1..Len(out) |-> out[j].name]
                 = FiringNames(promCall[i].response.data)

\* getAlerts answered a list with firing entries around a pending one
C15_Witness ==
    /\ promCall # <<>>
    /\ promCall[1].call = "getAlerts"
    /\ ~promCall[1].outcome.throws
    /\ Len(promCall[1].response.data) = 3
    /\ promCall[1].response.data[1].state = "firing"
    /\ promCall[1].response.data[2].state = "pending"
    /\ promCall[1].response.data[3].state = "firing"
    /\ Len(promCall[1].outcome.value) = 2

\* C16: a call whose response body has a top-level status other than
\* success throws and returns nothing of the response
C16_NonSuccessStatusThrows ==
    \A i \in 1..Len(promCall) :
        promCall[i].response.status # "success"
        => (promCall[i].outcome.throws /\ promCall[i].outcome.value = <<>>)

\* a call answered 2xx with status error and data has thrown
C16_Witness ==
    /\ promCall # <<>>
    /\ promCall[1].call = "queryInstant"
    /\ ~promCall[1].response.failed
    /\ promCall[1].response.status = "error"
    /\ promCall[1].response.data # <<>>
    /\ promCall[1].outcome.throws

\* ------------------------------------------------------------------------
\* A local-only target and the idle fraction its secondary source returns
\* ------------------------------------------------------------------------
\* outcomes of an instant query with the idle fractions 0, 0.25 and 1
IdleQueryOutcomes ==
    { [throws |-> TRUE, result |-> <<>>],
      [throws |-> FALSE, result |-> <<>>],
      [throws |-> FALSE, result |-> << <<"0">> >>],
      [throws |-> FALSE, result |-> << <<"0", ".", "2", "5">> >>],
      [throws |-> FALSE, result |-> << <<"1">> >>] }

\* queryInstant of the current query of a cycle settles
LocalQueryDone(c, outcome) ==
    /\ c \in DOMAIN cycles
    /\ cycles[c].phase = "query"
    /\ outcome \in IdleQueryOutcomes
    /\ SetWorld(AfterQuery(World, c, outcome, nodes[cycles[c].node]))
    /\ UNCHANGED <<explorerVars, callerVars>>

InitLocal == Init /\ saved = <<>>

NextLocal ==
    \/ \E l \in Labels, pc \in PromConfigs : addLocalPrometheus(l, pc)
    \/ \E t \in DOMAIN timers : Tick(t)
    \/ \E c \in DOMAIN cycles, o \in IdleQueryOutcomes : LocalQueryDone(c, o)

SpecLocal == InitLocal /\ [][NextLocal]_vars

\* the step is the successful end of local cycle c, whose first query
\* returned the idle fraction v (in hundredths)
LocalPollReturnsIdle(c, v) ==
    /\ cycles[c].kind = "local"
    /\ cycles[c].idx = NumQueries
    /\ Has(cycles[c].pm, PromQueryNames[1])
    /\ cycles[c].pm[PromQueryNames[1]] = Num(v)
    /\ \E o \in IdleQueryOutcomes : ~o.throws /\ LocalQueryDone(c, o)

\* C17: after a successful poll of a local-only target in which the idle
\* fraction v was returned, 0 included, the stored cpu is (1 - v) * 100; and
\* the stored cpu, 0 at the start, changes in no other step
C17_LocalCpuFromIdleFraction ==
    /\ [][\A c \in DOMAIN cycles, v \in 0..100 :
             LocalPollReturnsIdle(c, v)
             => /\ Has(serverMetrics', cycles[c].key)
                /\ heap'[serverMetrics'[cycles[c].key]].cpu = Num((100 - v) * 100)]_vars
    /\ [][\A k \in (DOMAIN serverMetrics) \cap (DOMAIN serverMetrics') :
             heap'[serverMetrics'[k]].cpu # heap[serverMetrics[k]].cpu
             => \E c \in DOMAIN cycles, v \in 0..100 :
                   cycles[c].key = k /\ LocalPollReturnsIdle(c, v)]_vars

\* the cycles that have a command in flight on session s: each cycle in its
\* probe phase has issued connection.exec and waits for the stream to end
CommandsInFlight(s) ==
    {c \in DOMAIN cycles : cycles[c].phase = "probe" /\ cycles[c].conn = s}

\* C18: on one session at most one command is in flight at any time
C18_OneCommandInFlightPerSession ==
    \A s \in DOMAIN sessions : Cardinality(CommandsInFlight(s)) <= 1

\* ------------------------------------------------------------------------
\* Poll cycles of a connected server, with the scheduling the code has
\* ------------------------------------------------------------------------
InitPoll == \E sv \in SavedShellServers : ConnectedAtStart(sv)

NextPoll ==
    \/ \E t \in DOMAIN timers : Tick(t)
    \/ \E c \in DOMAIN cycles : ExecError(c)
    \/ \E c \in DOMAIN cycles : StreamError(c)
    \/ \E c \in DOMAIN cycles, d \in AllProbeOutputs : StreamEnd(c, d)
    \/ \E c \in DOMAIN cycles, o \in QueryOutcomes : QueryDone(c, o)

\* setInterval fires its callback every 5 s
TimersFire == WF_vars(\E t \in DOMAIN timers : Tick(t))

\* every instant query is answered
QueriesSettle ==
    WF_vars(\E c \in DOMAIN cycles, o \in QueryOutcomes : QueryDone(c, o))

\* timers fire and queries are answered; a stream may stay silent
SpecStreamSilent == InitPoll /\ [][NextPoll]_vars /\ TimersFire /\ QueriesSettle

\* timers fire; whether a query is answered is left to the secondary source
SpecQuerySilent == InitPoll /\ [][NextPoll]_vars /\ TimersFire

\* C19: every started poll cycle eventually completes, by publishing or by
\* failing, also when a command's output stream never signals its end
C19_EveryCycleCompletes ==
    \A c \in 1..MaxCycles :
        (c \in DOMAIN cycles) ~> (c \in DOMAIN cycleOutcome)

\* C20: when a cycle has built its record from the five probe outputs and
\* waits for a secondary-source query, the record is eventually stored, also
\* when the query never completes
C20_PrimaryRecordEventuallyStored ==
    \A c \in 1..MaxCycles :
        (c \in DOMAIN cycles /\ cycles[c].phase = "query")
        ~> (c \in DOMAIN cycleOutcome
            /\ cycleOutcome[c].how \in {"published", "primaryOnly"})


\* ------------------------------------------------------------------------
\* Loss of a session that had become ready
\* ------------------------------------------------------------------------
\* the transport of a ready client fails or closes: the only listeners the
\* explorer has registered are those of the connect promise, which is
\* settled, and the metrics provider registers none
SessionLost(c) ==
    /\ c \in DOMAIN sessions
    /\ sessions[c] = "ready"
    /\ LateSignal(c, "error")

\* polling of a connected server whose session may be lost; the user may
\* disconnect it
NextLost ==
    \/ \E t \in DOMAIN timers : Tick(t)
    \/ \E c \in DOMAIN cycles : ExecError(c)
    \/ \E c \in DOMAIN cycles : StreamError(c)
    \/ \E c \in DOMAIN cycles, d \in AllProbeOutputs : StreamEnd(c, d)
    \/ \E c \in DOMAIN cycles, o \in QueryOutcomes : QueryDone(c, o)
    \/ \E c \in DOMAIN sessions : SessionLost(c)
    \/ \E n \in DOMAIN nodes : disconnectFromServer(n)

SpecLost == InitPoll /\ [][NextLost]_vars /\ TimersFire /\ QueriesSettle

\* the session on which node n is polled is no longer open
PolledSessionDead(n) ==
    /\ n \in DOMAIN nodes
    /\ Has(serverConnections, getServerKey(nodes[n]))
    /\ sessions[serverConnections[getServerKey(nodes[n])]] # "ready"

\* C21: when the session of a polled target is lost, the target eventually
\* leaves the polling state: no timer of the target is active any more
C21_LostSessionStopsPolling ==
    \A n \in 1..MaxNodes :
        (PolledSessionDead(n) /\ TimersOfNode(n) # {})
        ~> (n \in DOMAIN nodes => TimersOfNode(n) = {})

\* the session the explorer holds for the connected node n is no longer open
ConnectedSessionDead(n) ==
    /\ n \in DOMAIN nodes
    /\ nodes[n].isConnected
    /\ SessionOf(n) # <<>>
    /\ SessionOf(n)[2] # "ready"

\* C22: when the session of a connected target that has a stored record
\* dies, the target is eventually shown disconnected with a record still
\* returned by getMetrics
C22_DeadSessionShownDisconnected ==
    \A n \in 1..MaxNodes :
        (ConnectedSessionDead(n) /\ getMetrics(nodes[n]) # <<>>)
        ~> (/\ n \in DOMAIN nodes
            /\ ~nodes[n].isConnected
            /\ getMetrics(nodes[n]) # <<>>)


\* C23: a record a caller has obtained from getMetrics is not modified by any
\* later step: each poll builds a new record object and stores that
C23_ReturnedRecordNeverModified ==
    [][\A i \in 1..Len(returned) :
          heap'[returned[i]] = heap[returned[i]]]_vars


\* ------------------------------------------------------------------------
\* The order of the probes within a cycle
\* ------------------------------------------------------------------------
\* const commands = [...]: what each entry measures
commands == <<"cpu", "memory", "disk", "uptime", "loadAverage">>

\* the command a cycle in its probe phase has issued last
Issued(cy) == commands[cy.idx]

\* the step is the 'end' of the stream of the command cycle c has issued
StreamEndOf(c) == \E d \in AllProbeOutputs : StreamEnd(c, d)

\* C24: a shell cycle starts with the CPU probe; the command after
\* commands[i] is commands[i + 1] and is issued in the step in which the
\* stream of commands[i] ends, when the outputs of the i commands before it
\* are in; and a record is built only in the step in which the stream of the
\* fifth command ends
C24_ProbesInOrderOneAtATime ==
    [][/\ \A c \in (DOMAIN cycles') \ (DOMAIN cycles) :
             cycles'[c].kind = "shell"
             => /\ cycles'[c].phase = "probe"
                /\ Issued(cycles'[c]) = "cpu"
                /\ cycles'[c].results = <<>>
       /\ \A c \in (DOMAIN cycles') \cap (DOMAIN cycles) :
             (cycles[c].phase = "probe" /\ cycles'[c].phase = "probe")
             => \/ /\ cycles'[c].idx = cycles[c].idx
                   /\ cycles'[c].results = cycles[c].results
                \/ /\ cycles'[c].idx = cycles[c].idx + 1
                   /\ Len(cycles'[c].results) = cycles[c].idx
                   /\ StreamEndOf(c)
       /\ \A c \in DOMAIN cycles :
             (/\ cycles[c].phase = "probe"
              /\ \/ c \in DOMAIN cycles' /\ cycles'[c].phase = "query"
                 \/ /\ c \in DOMAIN cycleOutcome'
                    /\ cycleOutcome'[c].how = "published")
             => /\ Issued(cycles[c]) = "loadAverage"
                /\ Len(cycles[c].results) = NumCommands - 1
                /\ StreamEndOf(c)
                /\ nextObj' = nextObj + 1]_vars

\* a cycle has published the record built from its five outputs, and another
\* cycle waits for the stream of its third command
C24_Witness ==
    /\ \E c \in DOMAIN cycleOutcome : cycleOutcome[c].how = "published"
    /\ \E c \in DOMAIN cycles :
          /\ cycles[c].phase = "probe"
          /\ Issued(cycles[c]) = "disk"
          /\ Len(cycles[c].results) = 2


\* C25: a cycle whose probe has failed issues no further command and stores
\* no record, also when the failed stream ends after its error; and the step
\* in which a cycle fails leaves the timers as they are
C25_FailedCycleStops ==
    [][/\ \A c \in DOMAIN cycles :
             cycles[c].settled = "rejected"
             => /\ c \in DOMAIN cycles' => cycles'[c].idx = cycles[c].idx
                /\ \A k \in DOMAIN publishedBy' :
                      publishedBy'[k] = c
                      => (Has(publishedBy, k) /\ publishedBy[k] = c)
       /\ (CycleStep /\ FailureOfCycle) => timers' = timers]_vars


\* C26: every session the explorer's connections map holds, and every
\* session a target is polled on, is open
C26_HeldSessionsAreOpen ==
    /\ \A k \in DOMAIN connections : sessions[connections[k]] = "ready"
    /\ \A k \in DOMAIN serverConnections :
          Has(updateIntervals, k) => sessions[serverConnections[k]] = "ready"


\* ------------------------------------------------------------------------
\* Explorer commands run one after the other on two saved servers
\* ------------------------------------------------------------------------
\* connectToServer is started when no other connect attempt is under way
ConnectBeginAlone(n) ==
    /\ pending = {}
    /\ ConnectBegin(n)

\* the explorer's commands; a timer may fire and the poll it starts may fail
\* at its first command
NextOneByOne ==
    \/ \E n \in DOMAIN nodes : ConnectBeginAlone(n)
    \/ \E p \in pending : ConnectReady(p)
    \/ \E p \in pending : ConnectError(p)
    \/ \E n \in DOMAIN nodes : disconnectFromServer(n)
    \/ \E n \in DOMAIN nodes : removeServer(n)
    \/ \E n \in DOMAIN nodes, pc \in OptPromConfigs : configurePrometheus(n, pc)
    \/ \E t \in DOMAIN timers : Tick(t)
    \/ \E c \in DOMAIN cycles : ExecError(c)

SpecOneByOne == InitTwo /\ [][NextOneByOne]_vars

\* C27: when no addServer or connectToServer call is under way, for every
\* shell-backed server of the list these agree: the node is marked
\* connected, the connections map holds a session under its key, and a poll
\* timer of the node is active
C27_ConnectedSessionTimerAgree ==
    pending = {} =>
       \A i \in 1..Len(servers) :
          LET nd == nodes[servers[i]] IN
          ~nd.isLocalOnly =>
             /\ nd.isConnected <=> Has(connections, ExplorerGetServerKey(nd))
             /\ nd.isConnected <=> TimersOfNode(nd.id) # {}


\* ------------------------------------------------------------------------
\* Connect attempts that end in the catch block of addServer / connectToServer
\* ------------------------------------------------------------------------
\* startMonitoring when new PrometheusClient(config) throws: the constructor
\* reads the TLS certificate, key and CA files of the configuration with
\* fs.readFileSync; the session has been stored, no poll and no timer is
\* started
startMonitoringThrows(w, conn, nd) ==
    [w EXCEPT !.serverConnections = Put(@, getServerKey(nd), conn)]

\* 'ready' of addServer's client for a server with a Prometheus
\* configuration whose TLS files cannot be read: the exception of
\* startMonitoring reaches the catch block of addServer
AddServerReadyThrows(p) ==
    /\ p \in pending /\ p.kind = "add"
    /\ p.prom # <<>>
    /\ LET server == ServerNode(nextNode, p.label, p.host, p.username, p.port,
                                FALSE, p.prom)
           nd == [server EXCEPT !.isConnected = TRUE]
           w  == [World EXCEPT !.sessions[p.conn] = "ready",
                               !.attemptOutcomes = Settled(@, p.conn, "ready")]
       IN  /\ nodes' = Put(nodes, nextNode, nd)
           /\ servers' = Append(servers, nextNode)
           /\ saved' = saveServers(Put(nodes, nextNode, server), servers')
           /\ connections' = Put(connections, ExplorerGetServerKey(server), p.conn)
           /\ SetWorld(startMonitoringThrows(w, p.conn, nd))
    /\ nextNode' = nextNode + 1
    /\ pending' = pending \ {p}
    /\ UNCHANGED <<nextConn, callerVars>>

\* the same in connectToServer
ConnectReadyThrows(p) ==
    /\ p \in pending /\ p.kind = "connect"
    /\ nodes[p.node].prometheusConfig # <<>>
    /\ LET nd == [nodes[p.node] EXCEPT !.isConnected = TRUE]
           w  == [World EXCEPT !.sessions[p.conn] = "ready",
                               !.attemptOutcomes = Settled(@, p.conn, "ready")]
       IN  /\ nodes' = [nodes EXCEPT ![p.node] = nd]
           /\ connections' = Put(connections, ExplorerGetServerKey(nd), p.conn)
           /\ SetWorld(startMonitoringThrows(w, p.conn, nd))
    /\ pending' = pending \ {p}
    /\ UNCHANGED <<servers, saved, nextNode, nextConn, callerVars>>

NextAttempt ==
    \/ \E l \in Labels, h \in Hosts, u \in Users, pt \in Ports,
          pc \in OptPromConfigs : AddServerBegin(l, h, u, pt, pc)
    \/ \E n \in DOMAIN nodes : ConnectBegin(n)
    \/ \E p \in pending : AddServerReady(p)
    \/ \E p \in pending : ConnectReady(p)
    \/ \E p \in pending : ConnectError(p)
    \/ \E p \in pending : ConnectTimeout(p)
    \/ \E p \in pending : AddServerReadyThrows(p)
    \/ \E p \in pending : ConnectReadyThrows(p)
    \/ \E n \in DOMAIN nodes : disconnectFromServer(n)
    \/ \E n \in DOMAIN nodes : removeServer(n)

SpecAttempt == Init /\ [][NextAttempt]_vars

\* the step ends in the catch block of addServer or connectToServer, which
\* shows 'Failed to connect'
ReportsFailure ==
    \E p \in pending :
        \/ ConnectError(p)
        \/ ConnectTimeout(p)
        \/ AddServerReadyThrows(p)
        \/ ConnectReadyThrows(p)

\* C28: the step in which addServer or connectToServer reports a failure
\* leaves the server list, its saved copy, the connections map, the
\* connected flags and the provider's timers, sessions and records unchanged
C28_FailureLeavesStateUnchanged ==
    [][ReportsFailure =>
          /\ UNCHANGED <<servers, saved, connections, nodes>>
          /\ UNCHANGED <<timers, updateIntervals, serverConnections,
                         serverMetrics>>]_vars


\* ------------------------------------------------------------------------
\* Webview panels and their periodic refresh
\* ------------------------------------------------------------------------
MaxPanels == 3

\* the constructor of a panel class: after the first _update() it registers
\* onDidDispose and calls setInterval(() => this._update(), ...), whose
\* handle is not kept
NewPanel(kind) ==
    /\ panels' = Put(panels, nextPanel, [kind |-> kind, disposed |-> FALSE])
    /\ currentPanel' = [currentPanel EXCEPT ![kind] = <<nextPanel>>]
    /\ panelTimers' = Put(panelTimers, nextPanel, nextPanel)
    /\ nextPanel' = nextPanel + 1
    /\ UNCHANGED lastUpdate

\* createOrShow: an existing panel of the class is revealed; otherwise a
\* panel is created.  The constructor of PrometheusDashboard throws for a
\* server without Prometheus configuration, before anything is registered
createOrShow(kind, configured) ==
    /\ nextPanel <= MaxPanels
    /\ IF currentPanel[kind] # <<>>
          \/ (kind = "PrometheusDashboard" /\ ~configured)
       THEN UNCHANGED panelVars
       ELSE NewPanel(kind)
    /\ UNCHANGED <<explorerVars, providerVars, runtimeVars, historyVars,
                   returned, promCall, logVars>>

\* the user closes the panel: onDidDispose calls dispose(), which resets
\* currentPanel, disposes the webview panel and the registered disposables
dispose(id) ==
    /\ id \in DOMAIN panels
    /\ ~panels[id].disposed
    /\ panels' = [panels EXCEPT ![id].disposed = TRUE]
    /\ currentPanel' = [currentPanel EXCEPT ![panels[id].kind] = <<>>]
    /\ UNCHANGED <<panelTimers, lastUpdate, nextPanel>>
    /\ UNCHANGED <<explorerVars, providerVars, runtimeVars, historyVars,
                   returned, promCall, logVars>>

\* an interval of a panel fires: the callback runs this._update()
PanelTick(h) ==
    /\ h \in DOMAIN panelTimers
    /\ lastUpdate' = <<[panel |-> panelTimers[h],
                        disposed |-> panels[panelTimers[h]].disposed]>>
    /\ UNCHANGED <<panels, currentPanel, panelTimers, nextPanel>>
    /\ UNCHANGED <<explorerVars, providerVars, runtimeVars, historyVars,
                   returned, promCall, logVars>>

NextPanels ==
    \/ \E kind \in PanelKinds, configured \in BOOLEAN : createOrShow(kind, configured)
    \/ \E id \in DOMAIN panels : dispose(id)
    \/ \E h \in DOMAIN panelTimers : PanelTick(h)

SpecPanels == Init /\ [][NextPanels]_vars

\* C29: no interval of a disposed panel is active, and no interval has run
\* the _update of a panel that was disposed
C29_DisposedPanelStopsRefreshing ==
    /\ \A h \in DOMAIN panelTimers : ~panels[panelTimers[h]].disposed
    /\ \A i \in 1..Len(lastUpdate) : ~lastUpdate[i].disposed


\* ------------------------------------------------------------------------
\* LogManager: tailing log files of a server
\* ------------------------------------------------------------------------
MaxChannels == 2

MaxLogEntries == 2

maxBufferSize == 1000

LogPathLists == {<<"f">>, <<"f", "g">>}

\* chunks of tail output: lines with and without a timestamp
Chunks ==
    { <<[stamped |-> TRUE, raw |-> "l1"]>>,
      <<[stamped |-> FALSE, raw |-> "l2"]>>,
      <<[stamped |-> TRUE, raw |-> "l1"], [stamped |-> FALSE, raw |-> "l2"]>> }

\* parseLogEntries: one entry per line in which parseLogLine finds a
\* timestamp
RECURSIVE parseLogEntries(_, _)
parseLogEntries(logData, source) ==
    IF logData = <<>> THEN <<>>
    ELSE (IF Head(logData).stamped
          THEN <<[source |-> source, raw |-> Head(logData).raw]>>
          ELSE <<>>) \o parseLogEntries(Tail(logData), source)

\* addToBuffer(serverKey, entries)
addToBuffer(lb, k, entries) ==
    LET buffer == (IF Has(lb, k) THEN lb[k] ELSE <<>>) \o entries
    IN  Put(lb, k, IF Len(buffer) > maxBufferSize
                   THEN SubSeq(buffer, Len(buffer) - maxBufferSize + 1, Len(buffer))
                   ELSE buffer)

\* getLogEntries(node) without filter
getLogEntries(nd) ==
    IF Has(logBuffer, getServerKey(nd)) THEN logBuffer[getServerKey(nd)] ELSE <<>>

\* the stream keys of a server: `${serverKey}:${logPath}` starts with
\* serverKey
StreamKeysOf(ls, k) == {sk \in DOMAIN ls : sk[1] = k}

\* the maps and channels after the body of stopLogCollection
StopLogs(k) ==
    /\ channels' = [id \in DOMAIN channels |->
                      IF \E sk \in StreamKeysOf(logStreams, k) : logStreams[sk] = id
                      THEN [channels[id] EXCEPT !.ended = TRUE]
                      ELSE channels[id]]
    /\ logStreams' = [sk \in (DOMAIN logStreams) \ StreamKeysOf(logStreams, k) |->
                         logStreams[sk]]

\* stopLogCollection(node): the node's streams are ended and forgotten, its
\* buffer is deleted
stopLogCollection(n) ==
    /\ n \in DOMAIN nodes
    /\ StopLogs(getServerKey(nodes[n]))
    /\ logBuffer' = Del(logBuffer, getServerKey(nodes[n]))
    /\ logStopped' = logStopped \cup {getServerKey(nodes[n])}
    /\ UNCHANGED <<tailing, nextChannel>>
    /\ UNCHANGED <<explorerVars, providerVars, runtimeVars, historyVars,
                   returned, promCall, panelVars>>

\* startLogCollection up to its first await of tailLogFile: the existing
\* collection is stopped, the buffer is set to [] and tail -f of the first
\* path is started
startLogCollection(n, logPaths) ==
    /\ n \in DOMAIN nodes
    /\ nextChannel + Cardinality(tailing) <= MaxChannels
    /\ StopLogs(getServerKey(nodes[n]))
    /\ logBuffer' = Put(logBuffer, getServerKey(nodes[n]), <<>>)
    /\ logStopped' = logStopped \ {getServerKey(nodes[n])}
    /\ tailing' = tailing \cup {[key |-> getServerKey(nodes[n]), paths |-> logPaths]}
    /\ UNCHANGED nextChannel
    /\ UNCHANGED <<explorerVars, providerVars, runtimeVars, historyVars,
                   returned, promCall, panelVars>>

\* the call goes on with the next path, or returns
NextPath(t) ==
    IF Len(t.paths) > 1
    THEN (tailing \ {t}) \cup {[t EXCEPT !.paths = Tail(t.paths)]}
    ELSE tailing \ {t}

\* tailLogFile resolves: the stream is stored under its key and its 'data'
\* listener is registered
TailReady(t) ==
    /\ t \in tailing
    /\ nextChannel <= MaxChannels
    /\ channels' = Put(channels, nextChannel,
                       [key |-> t.key, path |-> Head(t.paths), ended |-> FALSE])
    /\ logStreams' = Put(logStreams, <<t.key, Head(t.paths)>>, nextChannel)
    /\ nextChannel' = nextChannel + 1
    /\ tailing' = NextPath(t)
    /\ UNCHANGED <<logBuffer, logStopped>>
    /\ UNCHANGED <<explorerVars, providerVars, runtimeVars, historyVars,
                   returned, promCall, panelVars>>

\* tailLogFile rejects: the catch block reports the path
TailFailed(t) ==
    /\ t \in tailing
    /\ tailing' = NextPath(t)
    /\ UNCHANGED <<logStreams, logBuffer, channels, logStopped, nextChannel>>
    /\ UNCHANGED <<explorerVars, providerVars, runtimeVars, historyVars,
                   returned, promCall, panelVars>>

\* 'data' of a channel: stream.end() has closed only the local side, the
\* listener stays registered and tail -f may still deliver output
ChannelData(id, chunk) ==
    /\ id \in DOMAIN channels
    /\ Len(getLogEntries([label |-> channels[id].key[1],
                          username |-> channels[id].key[2],
                          host |-> channels[id].key[3]])) < MaxLogEntries
    /\ logBuffer' = addToBuffer(logBuffer, channels[id].key,
                                parseLogEntries(chunk, channels[id].path))
    /\ UNCHANGED <<logStreams, channels, tailing, logStopped, nextChannel>>
    /\ UNCHANGED <<explorerVars, providerVars, runtimeVars, historyVars,
                   returned, promCall, panelVars>>

InitLogs == Init /\ saved \in SavedShellServers

NextLogs ==
    \/ \E n \in DOMAIN nodes, lp \in LogPathLists : startLogCollection(n, lp)
    \/ \E n \in DOMAIN nodes : stopLogCollection(n)
    \/ \E t \in tailing : TailReady(t)
    \/ \E t \in tailing : TailFailed(t)
    \/ \E id \in DOMAIN channels, chunk \in Chunks : ChannelData(id, chunk)

SpecLogs == InitLogs /\ [][NextLogs]_vars

\* every channel opened for the key was opened before the last
\* stopLogCollection of the key, which has ended it
AllChannelsEnded(k) ==
    \A id \in DOMAIN channels : channels[id].key = k => channels[id].ended

\* C30: from the end of stopLogCollection(node) to the next
\* startLogCollection(node), getLogEntries(node) returns no entries, also
\* when data arrives on a stream that was opened before the stop
C30_NoEntriesAfterStop ==
    \A n \in DOMAIN nodes :
        (/\ getServerKey(nodes[n]) \in logStopped
         /\ AllChannelsEnded(getServerKey(nodes[n])))
        => getLogEntries(nodes[n]) = <<>>

====
